---- MODULE Spec2Model ----
(***************************************************************************)
(* Model of the gesture-driven interaction core of the solar-system viewer: *)
(* the zustand store (store.ts), the effect of HandTracker from its setup   *)
(* to its cleanup with the per-frame gesture tick (predictWebcam, in its    *)
(* two variants), the callers of the store, and the useFrame callbacks of   *)
(* SolarSystem.tsx that move the camera and Saturn's body.                  *)
(*                                                                          *)
(* Numbers.  A JavaScript number is modelled as a record [nan, v]: either   *)
(* NaN, or a finite value v counted in millionths (1.0 is 1000000).  The    *)
(* arithmetic of the store rounds like IEEE-754 does, to a fixed number of  *)
(* significant digits (Digits, decimal here, standing for the 53 bits of a  *)
(* double), ties to even, so that an addend far below the last place of the *)
(* sum is absorbed.  With Digits >= 3 every value the tick loop produces    *)
(* (steps of 0.015 between -0.5 and 1.0) is exact.                          *)
(* Landmark coordinates are counted in hundredths of the frame (0..100).    *)
(***************************************************************************)
EXTENDS Integers, Sequences, FiniteSets, TLC

VARIABLES
    zoomLevel,       \* store.zoomLevel
    gestureStatus,   \* store.gestureStatus
    focusTarget,     \* store.focusTarget
    saturnRotation,  \* store.saturnRotation, [x, y]
    lastOp,          \* history: the last store call made by a direct caller
    rep,             \* history: how many times in a row lastOp was made
    run,             \* history: length of the run of increaseZoom(0.015) calls
                     \* made since construction, -1 once another call was made
    variant,         \* which HandTracker is built: "wrist" or "vertical"
    handLandmarker,  \* the closure's handLandmarker: "null" or "ready"
    listening,       \* the video has its stream and its loadeddata listener
    loaded,          \* the video has fired loadeddata
    rafPending,      \* predictWebcam callbacks requested and not yet run
    lastTick,        \* history: how the last run of predictWebcam ended
    probe,           \* observer: one detection result, fixed from the start
    onProbe,         \* observer: the last run of predictWebcam was given probe
    probed,          \* observer: what the store held after the last run on probe
    ticks,           \* observer: runs of predictWebcam counted so far
    setup,           \* the effect's setup: "loading", "acquiring", "done", "failed"
    stream,          \* the camera stream: "none", "live" or "stopped"
    videoRef,        \* videoRef.current (and canvasRef.current): "video" or "null"
    cleanups,        \* history: how many times the effect's cleanup has run
    clock,           \* the elapsed time of the last rendered frame, -1 before it
    camera,          \* the camera: position, forward direction, last lookAt point
    saturnBody,      \* rotation x and z of Saturn's planetBodyRef
    framed,          \* history: what the last rendered frame read and aimed at,
                     \* and the label the store held when it was rendered
    scene            \* the scale of SunHalo's points, the position of every
                     \* Planet's orbit group and the length last asked of it

storeVars == <<zoomLevel, gestureStatus, focusTarget, saturnRotation>>
histVars == <<lastOp, rep, run>>
trackerVars == <<variant, handLandmarker, listening, loaded, rafPending, lastTick>>
observerVars == <<probe, onProbe, probed, ticks>>
lifeVars == <<setup, stream, videoRef, cleanups>>
viewVars == <<clock, camera, saturnBody, framed, scene>>
vars == <<zoomLevel, gestureStatus, focusTarget, saturnRotation, lastOp, rep, run,
          variant, handLandmarker, listening, loaded, rafPending, lastTick,
          probe, onProbe, probed, ticks, setup, stream, videoRef, cleanups,
          clock, camera, saturnBody, framed, scene>>

----------------------------------------------------------------------------
(* Bounds of the model *)

Digits == 3      \* significant decimal digits kept by the arithmetic
MaxRun == 60     \* longest counted run of increaseZoom(0.015) calls
MaxRep == 2      \* longest counted repetition of one store call
MaxTicks == 3    \* runs of predictWebcam followed by the observer
MaxCleanups == 2 \* runs of the effect's cleanup
MaxPending == 3  \* requested callbacks beyond which the video fires no loadeddata

----------------------------------------------------------------------------
(* JavaScript numbers *)

NaN == [nan |-> TRUE, v |-> 0]
Fin(n) == [nan |-> FALSE, v |-> n]

Abs(n) == IF n < 0 THEN -n ELSE n

RECURSIVE Pow10(_)
Pow10(k) == IF k = 0 THEN 1 ELSE 10 * Pow10(k - 1)

\* The least magnitude that no longer fits Digits digits.
Radix == Pow10(Digits)

\* The spacing of representable values around magnitude a.
RECURSIVE Quantum(_)
Quantum(a) == IF a < Radix THEN 1 ELSE 10 * Quantum(a \div 10)

\* Round the exact value n to the nearest representable one, ties to even.
Fl(n) ==
    LET q == Quantum(Abs(n))
        lo == (n \div q) * q
        r == n - lo
    IN  IF 2 * r < q THEN lo
        ELSE IF 2 * r > q THEN lo + q
        ELSE IF (lo \div q) % 2 = 0 THEN lo ELSE lo + q

JsAdd(a, b) == IF a.nan \/ b.nan THEN NaN ELSE Fin(Fl(a.v + b.v))
JsSub(a, b) == IF a.nan \/ b.nan THEN NaN ELSE Fin(Fl(a.v - b.v))
MathMin(a, b) == IF a.nan \/ b.nan THEN NaN ELSE IF a.v <= b.v THEN a ELSE b
MathMax(a, b) == IF a.nan \/ b.nan THEN NaN ELSE IF a.v >= b.v THEN a ELSE b

----------------------------------------------------------------------------
(* store.ts *)

MAX_ZOOM == 1000000
MIN_ZOOM == -500000
ZoomDefault == 200000
ZOOM_STEP == 15000      \* the 0.015 both HandTracker variants pass

GestureLabels == {"IDLE", "POINT", "PINCH", "TWO", "THREE", "OPEN"}
FocusTargets == {"NONE", "SATURN", "EARTH", "MOON"}

\* increaseZoom without its upper clamp.
increaseZoomUncapped(amount) == MathMax(Fin(MIN_ZOOM), JsAdd(zoomLevel, amount))
\* decreaseZoom with the sign of increaseZoom.
decreaseZoomAdds(amount) ==
    MathMax(Fin(MIN_ZOOM), MathMin(Fin(MAX_ZOOM), JsAdd(zoomLevel, amount)))
\* setFocusTarget that keeps a body once one is focused.
setFocusTargetLocked(target) == IF focusTarget = "NONE" THEN target ELSE focusTarget
\* setFocusTarget as a toggle: selecting the current target deselects it.
setFocusTargetToggle(target) == IF focusTarget = target THEN "NONE" ELSE target

\* setZoomLevel without its clamp.
setZoomLevelUnclamped(level) == level
setZoomLevel(level) == MathMax(Fin(MIN_ZOOM), MathMin(Fin(MAX_ZOOM), level))
increaseZoom(amount) ==
    MathMax(Fin(MIN_ZOOM), MathMin(Fin(MAX_ZOOM), JsAdd(zoomLevel, amount)))
decreaseZoom(amount) ==
    MathMax(Fin(MIN_ZOOM), MathMin(Fin(MAX_ZOOM), JsSub(zoomLevel, amount)))
setGestureStatus(status) == status
setFocusTarget(target) == target
setSaturnRotation(x, y) == [x |-> x, y |-> y]

----------------------------------------------------------------------------
(* What the camera sees, and what handLandmarker.detectForVideo makes of it *)

Pt(x, y) == [x |-> x, y |-> y]

\* Where a fingertip sits relative to its PIP joint: above it, below it (folded
\* towards the wrist) or level with it; the index tip may also reach the top or
\* the bottom edge of the frame.
TipPlaces == {"up", "down", "level"}
TipY(place) ==
    CASE place = "up" -> 40 [] place = "down" -> 75 [] place = "level" -> 60
      [] place = "top" -> 0 [] place = "bottom" -> 100

\* Where the thumb tip sits relative to the index tip: 0.03 away, exactly 0.05
\* away, or far.
ThumbAt(place, tip) ==
    CASE place = "near" -> Pt(tip.x + 3, tip.y)
      [] place = "edge" -> Pt(tip.x + 3, tip.y + 4)
      [] place = "far" -> Pt(20, 70)

\* A scene: no hand, or an upright hand.  pose[k] places the tip of finger k
\* (1 index .. 4 pinky), thumb places the thumb tip, tipX is the column of the
\* index tip, len the number of landmarks the detector delivers (21, unless the
\* list is malformed).
Scene(pose, thumb, tipX, len) ==
    [hand |-> TRUE, pose |-> pose, thumb |-> thumb, tipX |-> tipX, len |-> len]
NoHandScene ==
    [hand |-> FALSE, pose |-> <<"down", "down", "down", "down">>, thumb |-> "far",
     tipX |-> 40, len |-> 0]

\* The landmark list of a hand scene: wrist at the bottom, the four PIP joints in
\* a row above it.
Landmarks(sc) ==
    [i \in 0..(sc.len - 1) |->
        CASE i = 0 -> Pt(50, 90)
          [] i = 4 -> ThumbAt(sc.thumb, Pt(sc.tipX, TipY(sc.pose[1])))
          [] i = 6 -> Pt(40, 60)
          [] i = 8 -> Pt(sc.tipX, TipY(sc.pose[1]))
          [] i = 10 -> Pt(48, 60)
          [] i = 12 -> Pt(48, TipY(sc.pose[2]))
          [] i = 14 -> Pt(56, 60)
          [] i = 16 -> Pt(56, TipY(sc.pose[3]))
          [] i = 18 -> Pt(64, 60)
          [] i = 20 -> Pt(64, TipY(sc.pose[4]))
          [] OTHER -> Pt(50, 80)]

Straight == [1..4 -> {"up", "down"}]
Poses == {p \in [1..4 -> TipPlaces] : Cardinality({k \in 1..4 : p[k] = "level"}) <= 1}

HandScenes ==
    {Scene(p, t, 40, 21) : p \in Poses, t \in {"near", "far"}}
    \cup {Scene(p, "edge", 40, 21) : p \in {q \in Straight : q[2] = q[4]}}
    \cup {Scene(<<i, "down", "down", "down">>, t, 30, 21) :
            i \in {"up", "level"}, t \in {"near", "far"}}
    \cup {Scene(<<i, "down", "down", "down">>, "far", x, 21) :
            i \in {"top", "bottom"}, x \in {0, 100}}

\* Scenes whose landmark list comes cut short.
MalformedScenes ==
    {Scene(<<"up", "up", "down", "down">>, "far", 40, n) : n \in {0, 5, 9, 20}}

Scenes == {NoHandScene} \cup HandScenes \cup MalformedScenes

\* The landmark list of every scene, computed once.
LandmarksOf == [sc \in Scenes |-> Landmarks(sc)]

\* results.landmarks: no hand, or one hand (numHands: 1).
detectForVideo(sc) == IF sc.hand THEN <<LandmarksOf[sc]>> ELSE << >>

\* The scenes the camera is shown in a long run: no hand, one hand for each
\* gesture (two for POINT, pointing at two places) and one malformed list.
Drivers ==
    {NoHandScene,
     Scene(<<"up", "up", "up", "down">>, "far", 40, 21),
     Scene(<<"up", "up", "down", "down">>, "far", 40, 21),
     Scene(<<"up", "down", "down", "down">>, "far", 40, 21),
     Scene(<<"up", "down", "down", "down">>, "near", 30, 21),
     Scene(<<"up", "up", "up", "up">>, "far", 40, 21),
     Scene(<<"down", "down", "down", "down">>, "near", 40, 21),
     Scene(<<"down", "down", "down", "down">>, "far", 40, 21),
     Scene(<<"up", "up", "down", "down">>, "far", 40, 20)}

----------------------------------------------------------------------------
(* predictWebcam: the gesture logic of the two HandTracker variants *)

PINCH_THRESHOLD == 5     \* 0.05, in hundredths of the frame
ROTATION_GAIN == 4       \* the 4.0 of rotX and rotY

\* landmarks[i] is undefined past the end of the list, and reading .x or .y of
\* undefined throws.  Both variants read every landmark they name before the
\* first store call, so a list that lacks one makes the whole run throw.
UsedLandmarks(v) ==
    IF v = "wrist" THEN {0, 4, 6, 8, 10, 12, 14, 16, 18, 20}
    ELSE {4, 6, 8, 10, 12, 14, 16, 18, 20}
Throws(v, lm) == \E i \in UsedLandmarks(v) : i \notin DOMAIN lm

Sq(n) == n * n
DistSq(a, b) == Sq(a.x - b.x) + Sq(a.y - b.y)

\* "wrist" variant: dTip > dPip * 1.1, on squared distances from the wrist.
isExtended(lm, tipIdx, pipIdx) ==
    10 * DistSq(lm[tipIdx], lm[0]) > 11 * DistSq(lm[pipIdx], lm[0])

\* "vertical" variant: tip.y < pip.y and tip.y > pip.y (y grows downwards).
isTipAbove(lm, tipIdx, pipIdx) == lm[tipIdx].y < lm[pipIdx].y
\* The curled test taken as the negation of the extended test.
isTipNotAbove(lm, tipIdx, pipIdx) == lm[tipIdx].y >= lm[pipIdx].y
isTipBelow(lm, tipIdx, pipIdx) == lm[tipIdx].y > lm[pipIdx].y

\* The pinch test with the threshold itself taken as a pinch.
isPinchInclusive(lm) == DistSq(lm[4], lm[8]) <= Sq(PINCH_THRESHOLD)
\* pinchDist < 0.05, with pinchDist the square root of DistSq: compared on the
\* squares.
isPinch(lm) == DistSq(lm[4], lm[8]) < Sq(PINCH_THRESHOLD)

\* The if / else-if chain of the "wrist" variant.
detectedGestureWrist(lm) ==
    LET indexOpen == isExtended(lm, 8, 6)
        middleOpen == isExtended(lm, 12, 10)
        ringOpen == isExtended(lm, 16, 14)
        pinkyOpen == isExtended(lm, 20, 18)
    IN  IF indexOpen /\ middleOpen /\ ringOpen /\ ~pinkyOpen THEN "THREE"
        ELSE IF indexOpen /\ middleOpen /\ ~ringOpen /\ ~pinkyOpen THEN "TWO"
        ELSE IF indexOpen /\ ~middleOpen /\ ~ringOpen /\ ~pinkyOpen THEN "POINT"
        ELSE IF indexOpen /\ middleOpen /\ ringOpen /\ pinkyOpen THEN "OPEN"
        ELSE IF isPinch(lm) THEN "PINCH"
        ELSE "IDLE"

\* The chain of the "vertical" variant with a THREE that does not look at the
\* pinky.
detectedGestureVerticalLoose(lm) ==
    LET isIndexExtended == isTipAbove(lm, 8, 6)
        isMiddleExtended == isTipAbove(lm, 12, 10)
        isRingExtended == isTipAbove(lm, 16, 14)
        isPinkyExtended == isTipAbove(lm, 20, 18)
        isMiddleCurled == isTipBelow(lm, 12, 10)
        isRingCurled == isTipBelow(lm, 16, 14)
        isPinkyCurled == isTipBelow(lm, 20, 18)
    IN  IF isIndexExtended /\ isMiddleExtended /\ isRingExtended THEN "THREE"
        ELSE IF isIndexExtended /\ isMiddleExtended /\ isRingCurled /\ isPinkyCurled
        THEN "TWO"
        ELSE IF isIndexExtended /\ isMiddleCurled /\ isRingCurled /\ isPinkyCurled
        THEN "POINT"
        ELSE IF isPinch(lm) THEN "PINCH"
        ELSE "IDLE"
\* The if / else-if chain of the "vertical" variant.
detectedGestureVertical(lm) ==
    LET isIndexExtended == isTipAbove(lm, 8, 6)
        isMiddleExtended == isTipAbove(lm, 12, 10)
        isRingExtended == isTipAbove(lm, 16, 14)
        isPinkyExtended == isTipAbove(lm, 20, 18)
        isMiddleCurled == isTipBelow(lm, 12, 10)
        isRingCurled == isTipBelow(lm, 16, 14)
        isPinkyCurled == isTipBelow(lm, 20, 18)
        isThree == isIndexExtended /\ isMiddleExtended /\ isRingExtended /\ isPinkyCurled
        isTwo == isIndexExtended /\ isMiddleExtended /\ isRingCurled /\ isPinkyCurled
        isPointing == isIndexExtended /\ isMiddleCurled /\ isRingCurled /\ isPinkyCurled
        isOpenHand ==
            isIndexExtended /\ isMiddleExtended /\ isRingExtended /\ isPinkyExtended
    IN  IF isThree THEN "THREE"
        ELSE IF isTwo THEN "TWO"
        ELSE IF isPointing THEN "POINT"
        ELSE IF isOpenHand THEN "OPEN"
        ELSE IF isPinch(lm) THEN "PINCH"
        ELSE "IDLE"

\* The chain with the pinch test moved to the front.
detectedGesturePinchFirst(lm) ==
    IF isPinch(lm) THEN "PINCH"
    ELSE IF variant = "wrist" THEN detectedGestureWrist(lm)
    ELSE detectedGestureVertical(lm)
\* The chain with a pinch that, once made, holds up to the threshold itself.
detectedGestureSticky(lm) ==
    LET g == IF variant = "wrist" THEN detectedGestureWrist(lm)
             ELSE detectedGestureVertical(lm)
    IN  IF /\ g = "IDLE"
           /\ gestureStatus = "PINCH"
           /\ DistSq(lm[4], lm[8]) <= Sq(PINCH_THRESHOLD)
        THEN "PINCH" ELSE g
detectedGesture(lm) ==
    IF variant = "wrist" THEN detectedGestureWrist(lm) ELSE detectedGestureVertical(lm)

\* rotX taken from the x of the index tip.
rotXFromX(lm) == (lm[8].x - 50) * ROTATION_GAIN
\* rotX and rotY of the POINT branch, in hundredths.
rotX(lm) == (lm[8].y - 50) * ROTATION_GAIN
rotY(lm) == (lm[8].x - 50) * ROTATION_GAIN

\* The store calls of each branch of the chain.
ThreeBranch ==
    /\ focusTarget' = setFocusTarget("MOON")
    /\ UNCHANGED <<zoomLevel, saturnRotation>>
TwoBranch ==
    /\ focusTarget' = setFocusTarget("EARTH")
    /\ UNCHANGED <<zoomLevel, saturnRotation>>
PointBranch(lm) ==
    /\ focusTarget' = setFocusTarget("SATURN")
    /\ saturnRotation' = setSaturnRotation(rotX(lm), rotY(lm))
    /\ UNCHANGED zoomLevel
\* The OPEN branch made to leave the focused body.
OpenBranchUnfocus ==
    /\ zoomLevel' = increaseZoom(Fin(ZOOM_STEP))
    /\ focusTarget' = setFocusTarget("NONE")
    /\ UNCHANGED saturnRotation
OpenBranch ==
    /\ zoomLevel' = increaseZoom(Fin(ZOOM_STEP))
    /\ UNCHANGED <<focusTarget, saturnRotation>>
\* The PINCH branch without its setFocusTarget call.
PinchBranchZoomOnly ==
    /\ zoomLevel' = decreaseZoom(Fin(ZOOM_STEP))
    /\ UNCHANGED <<focusTarget, saturnRotation>>
PinchBranch ==
    /\ focusTarget' = setFocusTarget("NONE")
    /\ zoomLevel' = decreaseZoom(Fin(ZOOM_STEP))
    /\ UNCHANGED saturnRotation
\* The IDLE branch made to go back to the overview.
IdleBranchUnfocus ==
    /\ focusTarget' = setFocusTarget("NONE")
    /\ UNCHANGED <<zoomLevel, saturnRotation>>
IdleBranch == UNCHANGED <<zoomLevel, focusTarget, saturnRotation>>

\* The branch taken for a hand, then setGestureStatus(detectedGesture).
HandBranch(lm) ==
    LET g == detectedGesture(lm)
    IN  /\ IF g = "THREE" THEN ThreeBranch
           ELSE IF g = "TWO" THEN TwoBranch
           ELSE IF g = "POINT" THEN PointBranch(lm)
           ELSE IF g = "OPEN" THEN OpenBranch
           ELSE IF g = "PINCH" THEN PinchBranch
           ELSE IdleBranch
        /\ gestureStatus' = setGestureStatus(g)

\* The no-hand branch made to drop the focus as well.
NoHandBranchUnfocus ==
    /\ gestureStatus' = setGestureStatus("IDLE")
    /\ focusTarget' = setFocusTarget("NONE")
    /\ UNCHANGED <<zoomLevel, saturnRotation>>
\* The else branch of the results.landmarks test: no hand.
NoHandBranch ==
    /\ gestureStatus' = setGestureStatus("IDLE")
    /\ UNCHANGED <<zoomLevel, focusTarget, saturnRotation>>

----------------------------------------------------------------------------
(* SolarSystem.tsx: the scene and the camera controller *)
(* Lengths are counted in hundredths of a scene unit, angles in hundredths   *)
(* of a radian, cosines, sines and unit vectors in thousandths, the zoom the *)
(* controller reads in thousandths, Saturn's body rotation in thousandths of *)
(* a radian.  Every product is rounded to the nearest count.                 *)

CAMERA_LERP == 5        \* the 0.05 of camera.position.lerp and currentLookAt.lerp
ROTATION_LERP == 10     \* the 0.1 of the planet body's MathUtils.lerp

\* The elapsed times a frame may be rendered at, in seconds.
Times == {0, 5, 10}

\* n / d rounded to the nearest integer (d > 0).
RoundDiv(n, d) == (2 * n + d) \div (2 * d)

\* Math.cos and Math.sin, for the angles the elapsed times of Times produce.
MathCos(angle) ==
    CASE angle = 0 -> 1000 [] angle = 200 -> -416 [] angle = 250 -> -801
      [] angle = 300 -> -990 [] angle = 400 -> -654 [] angle = 500 -> 284
      [] angle = 540 -> 635 [] angle = 580 -> 886
MathSin(angle) ==
    CASE angle = 0 -> 0 [] angle = 200 -> 909 [] angle = 250 -> 598
      [] angle = 300 -> 141 [] angle = 400 -> -757 [] angle = 500 -> -959
      [] angle = 540 -> -773 [] angle = 580 -> -465

Vector3(x, y, z) == <<x, y, z>>
VecAdd(a, b) == <<a[1] + b[1], a[2] + b[2], a[3] + b[3]>>
VecSub(a, b) == <<a[1] - b[1], a[2] - b[2], a[3] - b[3]>>

\* The integer square root, by bisection.
RECURSIVE SqrtBetween(_, _, _)
SqrtBetween(n, lo, hi) ==
    IF lo >= hi THEN lo
    ELSE LET mid == (lo + hi + 1) \div 2
         IN  IF mid * mid <= n THEN SqrtBetween(n, mid, hi)
             ELSE SqrtBetween(n, lo, mid - 1)
VecLength(a) == SqrtBetween(a[1] * a[1] + a[2] * a[2] + a[3] * a[3], 0, 30000)

\* Vector3.lerp snapping onto its argument.
Vector3LerpSnap(p, v, alpha) == v
\* Vector3.lerp: this += (v - this) * alpha, alpha in hundredths.
Vector3Lerp(p, v, alpha) ==
    <<p[1] + RoundDiv((v[1] - p[1]) * alpha, 100),
      p[2] + RoundDiv((v[2] - p[2]) * alpha, 100),
      p[3] + RoundDiv((v[3] - p[3]) * alpha, 100)>>

\* MathUtils.lerp with the rate of the camera.
MathUtilsLerpSlow(x, y, t) == RoundDiv((100 - CAMERA_LERP) * x + CAMERA_LERP * y, 100)
\* THREE.MathUtils.lerp: (1 - t) * x + t * y, t in hundredths.
MathUtilsLerp(x, y, t) == RoundDiv((100 - t) * x + t * y, 100)

\* An object rotated by rotation.y = angle about the scene's vertical axis takes
\* the point (x, 0, z) of its own frame to this point of its parent's frame.
RotateY(angle, v) ==
    <<RoundDiv(v[1] * MathCos(angle) + v[3] * MathSin(angle), 1000),
      v[2],
      RoundDiv(v[3] * MathCos(angle) - v[1] * MathSin(angle), 1000)>>

\* The angles of the orbits at elapsed time t: the Planet groups turn by
\* t * speed * 0.2 + rotationOffset, the Moon's orbit group by t * 0.5.
EarthAngle(t) == 20 * t + 200
SaturnAngle(t) == 8 * t + 500
MoonAngle(t) == 50 * t

\* Where the scene graph puts the bodies at elapsed time t: a planet's body sits
\* at (distance, 0, 0) in its turning group; the Moon sits at (3.5, 0, 0) in its
\* orbit group, which turns inside the Earth's body group.
EarthPosition(t) == RotateY(EarthAngle(t), Vector3(1800, 0, 0))
SaturnPosition(t) == RotateY(SaturnAngle(t), Vector3(4200, 0, 0))
MoonPosition(t) ==
    RotateY(EarthAngle(t),
            VecAdd(Vector3(1800, 0, 0), RotateY(MoonAngle(t), Vector3(350, 0, 0))))

\* zPos without the Math.abs of its far branch.
zPosSigned(zoom) ==
    IF zoom < 0 THEN 6000 + RoundDiv(zoom * 2 * 3000, 1000)
    ELSE RoundDiv((1000 - zoom) * 6000 + zoom * 400, 1000)
\* zPos of the standard view, from the zoom in thousandths.
zPos(zoom) ==
    IF zoom < 0 THEN 6000 + RoundDiv(Abs(zoom) * 2 * 3000, 1000)
    ELSE RoundDiv((1000 - zoom) * 6000 + zoom * 400, 1000)

\* targetPos and lookAtPos of each branch of the camera logic.
SaturnView(t) ==
    LET saturnX == RoundDiv(MathCos(SaturnAngle(t)) * 4200, 1000)
        saturnZ == RoundDiv(-MathSin(SaturnAngle(t)) * 4200, 1000)
    IN  [targetPos |-> Vector3(saturnX + 500, 400, saturnZ + 900),
         lookAtPos |-> Vector3(saturnX, 0, saturnZ)]
EarthView(t) ==
    LET earthX == RoundDiv(MathCos(EarthAngle(t)) * 1800, 1000)
        earthZ == RoundDiv(-MathSin(EarthAngle(t)) * 1800, 1000)
    IN  [targetPos |-> Vector3(earthX + 200, 100, earthZ + 400),
         lookAtPos |-> Vector3(earthX, 0, earthZ)]
MoonView(t) ==
    LET earthX == RoundDiv(MathCos(EarthAngle(t)) * 1800, 1000)
        earthZ == RoundDiv(-MathSin(EarthAngle(t)) * 1800, 1000)
        moonX == RoundDiv(MathCos(MoonAngle(t)) * 350, 1000)
        moonZ == RoundDiv(-MathSin(MoonAngle(t)) * 350, 1000)
        absMoonX == earthX + moonX
        absMoonZ == earthZ + moonZ
    IN  [targetPos |-> Vector3(absMoonX + 100, 50, absMoonZ + 200),
         lookAtPos |-> Vector3(absMoonX, 0, absMoonZ)]
StandardView(zoom) ==
    [targetPos |-> Vector3(0, 2000, zPos(zoom)), lookAtPos |-> Vector3(0, 0, 0)]

\* The view of a frame that reads focus and zoom at elapsed time t.
ViewOf(focus, zoom, t) ==
    IF focus = "SATURN" THEN SaturnView(t)
    ELSE IF focus = "EARTH" THEN EarthView(t)
    ELSE IF focus = "MOON" THEN MoonView(t)
    ELSE StandardView(zoom)

\* camera.lookAt(point) from position pos: the forward direction, a unit vector;
\* fwd is kept when the point is the position itself.
LookDirection(pos, point, fwd) ==
    LET d == VecSub(point, pos)
        len == VecLength(d)
    IN  IF len = 0 THEN fwd
        ELSE <<RoundDiv(d[1] * 1000, len), RoundDiv(d[2] * 1000, len),
               RoundDiv(d[3] * 1000, len)>>

\* currentLookAt of the standard view: the point one unit ahead of the camera.
CurrentLookAt(pos, fwd) ==
    VecAdd(pos, <<RoundDiv(fwd[1], 10), RoundDiv(fwd[2], 10), RoundDiv(fwd[3], 10)>>)

\* The focus a frame reads being the one the frame before it read.
FocusReadStale == IF framed.focus \in FocusTargets THEN framed.focus ELSE focusTarget
\* The values the component's selectors hand to the frame: those the store holds
\* (the component is rendered again on every change of them).
FocusRead == focusTarget
ZoomRead == RoundDiv(zoomLevel.v, 1000)

\* The useFrame callback of SolarSystem at elapsed time t.  With zoomLevel NaN
\* the standard view's zPos is NaN, and so is the camera's z from then on,
\* whatever the later frames aim at: pos, fwd and look then stand for nothing.
CameraFrame(t) ==
    LET view == ViewOf(FocusRead, ZoomRead, t)
        pos == Vector3Lerp(camera.pos, view.targetPos, CAMERA_LERP)
        point == IF FocusRead \in {"SATURN", "EARTH", "MOON"} THEN view.lookAtPos
                 ELSE Vector3Lerp(CurrentLookAt(pos, camera.fwd), view.lookAtPos,
                                  CAMERA_LERP)
    IN  IF camera.nan \/ (FocusRead = "NONE" /\ zoomLevel.nan)
        THEN /\ camera' = [camera EXCEPT !.nan = TRUE]
             /\ framed' = [framed EXCEPT !.focus = FocusRead, !.label = gestureStatus]
        ELSE /\ camera' = [pos |-> pos, fwd |-> LookDirection(pos, point, camera.fwd),
                           look |-> point, nan |-> FALSE]
             /\ framed' = [focus |-> FocusRead, zoom |-> ZoomRead,
                           target |-> view.targetPos, aim |-> view.lookAtPos,
                           label |-> gestureStatus]

\* Saturn's Planet handed saturnRotation whatever is in focus.
SaturnFrameUnfocused ==
    saturnBody' =
        [x |-> MathUtilsLerp(saturnBody.x, 10 * saturnRotation.x, ROTATION_LERP),
         z |-> MathUtilsLerp(saturnBody.z, 10 * saturnRotation.y, ROTATION_LERP)]
\* The useFrame callback of Saturn's Planet: manualRotation is saturnRotation
\* while the focus is on Saturn and undefined otherwise.
SaturnFrame ==
    saturnBody' =
        IF FocusRead = "SATURN"
        THEN [x |-> MathUtilsLerp(saturnBody.x, 10 * saturnRotation.x, ROTATION_LERP),
              z |-> MathUtilsLerp(saturnBody.z, 10 * saturnRotation.y, ROTATION_LERP)]
        ELSE saturnBody

\* The distance of every Planet, in hundredths.
Distances == {1000, 1400, 1800, 2200, 3200, 4200, 5200, 6000}

\* a > b of JavaScript numbers: false when either is NaN.
JsGreater(a, b) == ~a.nan /\ ~b.nan /\ a.v > b.v

\* Vector3.setLength: normalize(), which divides by length() || 1, then
\* multiplyScalar(length); the zero vector stays the zero vector.
Vector3SetLength(v, length) ==
    LET len == VecLength(v)
    IN  IF len = 0 THEN v
        ELSE <<RoundDiv(v[1] * length, len), RoundDiv(v[2] * length, len),
               RoundDiv(v[3] * length, len)>>

\* The length the useFrame callback of the Planet at distance asks of its
\* orbit group's position: distance + (zoomLevel - 1.0) * 20.0 past 1.0.
AskedLength(distance) ==
    IF JsGreater(zoomLevel, Fin(1000000))
    THEN distance + RoundDiv(zoomLevel.v - 1000000, 500)
    ELSE distance

\* The scale the useFrame callback of SunHalo sets, in thousandths:
\* 1 + (zoomLevel - 1) * 3 past 1.0.
HaloScale ==
    IF JsGreater(zoomLevel, Fin(1000000))
    THEN 1000 + RoundDiv(3 * (zoomLevel.v - 1000000), 1000)
    ELSE 1000

\* The useFrame callbacks of SunHalo and of the Planets, as far as they read
\* zoomLevel.
SceneFrame ==
    scene' = [halo |-> HaloScale,
              asked |-> [d \in Distances |-> AskedLength(d)],
              position |-> [d \in Distances |->
                              Vector3SetLength(scene.position[d], AskedLength(d))]]

\* One rendered frame at elapsed time t: the useFrame callbacks run.
Frame(t) ==
    /\ t > clock
    /\ clock' = t
    /\ CameraFrame(t)
    /\ SaturnFrame
    /\ SceneFrame
    /\ UNCHANGED <<storeVars, histVars, trackerVars, observerVars, lifeVars>>

----------------------------------------------------------------------------
(* Initial states *)

\* What the observer holds before the probe was processed.
NotProbed ==
    [seen |-> FALSE, times |-> 0, label |-> "IDLE", focus |-> "NONE",
     rotation |-> [x |-> 0, y |-> 0]]

StoreInit ==
    /\ zoomLevel = Fin(ZoomDefault)
    /\ gestureStatus = "IDLE"
    /\ focusTarget = "NONE"
    /\ saturnRotation = [x |-> 0, y |-> 0]

HistInit ==
    /\ lastOp = [op |-> "none"]
    /\ rep = 0
    /\ run = 0

\* HandTracker before its effect has done anything.
TrackerInit ==
    /\ variant \in {"wrist", "vertical"}
    /\ handLandmarker = "null"
    /\ listening = FALSE
    /\ loaded = FALSE
    /\ rafPending = 0
    /\ lastTick = "none"

\* The observer switched off.
ObserverOff ==
    /\ probe = NoHandScene
    /\ onProbe = FALSE
    /\ probed = NotProbed
    /\ ticks = 0

\* The effect before its setup has got anywhere.
LifeInit ==
    /\ setup = "loading"
    /\ stream = "none"
    /\ videoRef = "video"
    /\ cleanups = 0

\* The camera as the Canvas makes it, at (0, 20, 60) and turned towards the
\* origin; no frame rendered yet: the points of SunHalo at scale 1, the orbit
\* groups at the origin of their Planet, no length asked of them.
ViewInit ==
    /\ clock = -1
    /\ camera = [pos |-> Vector3(0, 2000, 6000),
                 fwd |-> LookDirection(Vector3(0, 2000, 6000), Vector3(0, 0, 0),
                                       Vector3(0, 0, -1000)),
                 look |-> Vector3(0, 0, 0), nan |-> FALSE]
    /\ saturnBody = [x |-> 0, z |-> 0]
    /\ framed = [focus |-> "none", zoom |-> 0, target |-> Vector3(0, 0, 0),
                 aim |-> Vector3(0, 0, 0), label |-> "none"]
    /\ scene = [halo |-> 1000,
                asked |-> [d \in Distances |-> 0],
                position |-> [d \in Distances |-> Vector3(0, 0, 0)]]

----------------------------------------------------------------------------
(* HandTracker: the effect's asynchronous steps and the tick *)

\* One run of predictWebcam.  pending: the callbacks still requested besides the
\* one running; sized: the video has a width and a height; sc: the scene the
\* video shows (looked at only when the run gets that far).  What detectForVideo
\* does on a handLandmarker that was closed is the library's business: it may
\* throw, or deliver results as before.
predictWebcam(pending, sized, sc) ==
    LET res == detectForVideo(sc) IN
    IF handLandmarker = "null" \/ videoRef = "null"
    THEN /\ UNCHANGED storeVars
         /\ rafPending' = pending
         /\ lastTick' = "returned"
    ELSE IF ~sized
    THEN /\ UNCHANGED storeVars
         /\ rafPending' = pending + 1
         /\ lastTick' = "unsized"
    ELSE \/ /\ handLandmarker = "closed"
            /\ UNCHANGED storeVars
            /\ rafPending' = pending
            /\ lastTick' = "threw"
         \/ IF Len(res) = 0
            THEN /\ NoHandBranch
                 /\ rafPending' = pending + 1
                 /\ lastTick' = "nohand"
            ELSE IF Throws(variant, res[1])
            THEN /\ UNCHANGED storeVars
                 /\ rafPending' = pending
                 /\ lastTick' = "threw"
            ELSE /\ HandBranch(res[1])
                 /\ rafPending' = pending + 1
                 /\ lastTick' = "hand"

\* What the observer notes of a run on scene sc, when it is switched on.
Observe(on, sized, sc) ==
    IF on
    THEN /\ ticks < MaxTicks
         /\ ticks' = ticks + 1
         /\ probe' = probe
         /\ onProbe' = (sized /\ sc = probe)
         /\ probed' = IF sized /\ sc = probe /\ lastTick' = "hand"
                      THEN [seen |-> TRUE, times |-> probed.times + 1,
                            label |-> gestureStatus', focus |-> focusTarget',
                            rotation |-> saturnRotation']
                      ELSE probed
    ELSE UNCHANGED observerVars

\* The scenes a run may be shown; an unsized video shows nothing.
ScenesWhen(sized, shown) == IF sized THEN shown ELSE {NoHandScene}

\* setupMediaPipe: the model is loaded; startWebcam is called.
SetupMediaPipe ==
    /\ setup = "loading"
    /\ setup' = "acquiring"
    /\ handLandmarker' = "ready"
    /\ UNCHANGED <<variant, listening, loaded, rafPending, lastTick>>
    /\ UNCHANGED <<stream, videoRef, cleanups>>
    /\ UNCHANGED <<storeVars, histVars, observerVars, viewVars>>

\* setupMediaPipe: loading the model fails; the catch logs the error and
\* startWebcam is never called.
SetupFails ==
    /\ setup = "loading"
    /\ setup' = "failed"
    /\ UNCHANGED <<stream, videoRef, cleanups>>
    /\ UNCHANGED <<storeVars, histVars, trackerVars, observerVars, viewVars>>

\* startWebcam: the camera stream arrives; the video, if videoRef still holds
\* one, gets it and the listener.
StartWebcam ==
    /\ setup = "acquiring"
    /\ setup' = "done"
    /\ stream' = "live"
    /\ listening' = (videoRef # "null")
    /\ UNCHANGED <<variant, handLandmarker, loaded, rafPending, lastTick>>
    /\ UNCHANGED <<videoRef, cleanups>>
    /\ UNCHANGED <<storeVars, histVars, observerVars, viewVars>>

\* startWebcam with a catch that goes on to register the listener.
WebcamFailsButListens ==
    /\ setup = "acquiring"
    /\ setup' = "failed"
    /\ listening' = TRUE
    /\ UNCHANGED <<variant, handLandmarker, loaded, rafPending, lastTick>>
    /\ UNCHANGED <<stream, videoRef, cleanups>>
    /\ UNCHANGED <<storeVars, histVars, observerVars, viewVars>>
\* startWebcam: there is no navigator.mediaDevices, or getUserMedia rejects and
\* the catch logs the error; no stream, no listener.
WebcamFails ==
    /\ setup = "acquiring"
    /\ setup' = "failed"
    /\ UNCHANGED <<stream, videoRef, cleanups>>
    /\ UNCHANGED <<storeVars, histVars, trackerVars, observerVars, viewVars>>

\* The effect's cleanup.  detached: React has already set videoRef.current to
\* null when the cleanup runs (it does so on unmount).  The stream is stopped
\* only through the video that holds it; cancelAnimationFrame takes the one
\* request there can be; close is called on the handLandmarker the closure
\* holds now, and the variable keeps the closed object.
Cleanup(detached) ==
    /\ cleanups < MaxCleanups
    /\ cleanups' = cleanups + 1
    /\ videoRef' = IF detached THEN "null" ELSE videoRef
    /\ stream' = IF videoRef' # "null" /\ listening /\ stream = "live"
                 THEN "stopped" ELSE stream
    /\ rafPending' = 0
    /\ handLandmarker' = IF handLandmarker = "null" THEN "null" ELSE "closed"
    /\ UNCHANGED <<variant, listening, loaded, lastTick, setup>>
    /\ UNCHANGED <<storeVars, histVars, observerVars, viewVars>>

\* The video fires loadeddata: predictWebcam runs as its listener.
LoadedData(on, sized, sc) ==
    /\ listening
    /\ ~loaded
    /\ loaded' = TRUE
    /\ predictWebcam(rafPending, sized, sc)
    /\ Observe(on, sized, sc)
    /\ UNCHANGED <<variant, handLandmarker, listening, histVars, lifeVars, viewVars>>

\* The video fires loadeddata once more (its media was loaded again): the
\* listener, still registered, runs predictWebcam again.
LoadedDataAgain(on, sized, sc) ==
    /\ listening
    /\ loaded
    /\ rafPending < MaxPending
    /\ predictWebcam(rafPending, sized, sc)
    /\ Observe(on, sized, sc)
    /\ UNCHANGED <<variant, handLandmarker, listening, loaded, histVars>>
    /\ UNCHANGED <<lifeVars, viewVars>>

\* An animation frame: a requested predictWebcam callback runs.
AnimationFrame(on, sized, sc) ==
    /\ rafPending > 0
    /\ predictWebcam(rafPending - 1, sized, sc)
    /\ Observe(on, sized, sc)
    /\ UNCHANGED <<variant, handLandmarker, listening, loaded, histVars>>
    /\ UNCHANGED <<lifeVars, viewVars>>

Init == StoreInit /\ HistInit /\ TrackerInit /\ ObserverOff /\ LifeInit /\ ViewInit

Next ==
    \/ SetupMediaPipe
    \/ StartWebcam
    \/ \E sized \in BOOLEAN : \E sc \in ScenesWhen(sized, Drivers) :
            LoadedData(FALSE, sized, sc)
    \/ \E sized \in BOOLEAN : \E sc \in ScenesWhen(sized, Drivers) :
            AnimationFrame(FALSE, sized, sc)

Spec == Init /\ [][Next]_vars

\* The same program with the observer on: it follows the first MaxTicks runs of
\* predictWebcam, in which the camera is shown the drivers and one more scene,
\* probe, which is any scene at all.
ObservedInit ==
    /\ StoreInit /\ HistInit /\ TrackerInit /\ LifeInit /\ ViewInit
    /\ probe \in Scenes
    /\ onProbe = FALSE
    /\ probed = NotProbed
    /\ ticks = 0

ObservedNext ==
    \/ SetupMediaPipe
    \/ StartWebcam
    \/ \E sized \in BOOLEAN : \E sc \in ScenesWhen(sized, Drivers \cup {probe}) :
            LoadedData(TRUE, sized, sc)
    \/ \E sized \in BOOLEAN : \E sc \in ScenesWhen(sized, Drivers \cup {probe}) :
            AnimationFrame(TRUE, sized, sc)

ObservedSpec == ObservedInit /\ [][ObservedNext]_vars

----------------------------------------------------------------------------
(* Direct callers of the store: any call, any argument *)

SameCall(c) == lastOp = c
Min(a, b) == IF a <= b THEN a ELSE b

\* The history kept beside a store call c.
Record(c) ==
    /\ UNCHANGED trackerVars
    /\ UNCHANGED observerVars
    /\ UNCHANGED <<lifeVars, viewVars>>
    /\ lastOp' = c
    /\ rep' = IF SameCall(c) THEN Min(rep + 1, MaxRep) ELSE 1
    /\ run' = IF run >= 0 /\ c = [op |-> "increaseZoom", arg |-> Fin(ZOOM_STEP)]
              THEN Min(run + 1, MaxRun) ELSE -1

CallSetZoomLevel(level) ==
    /\ zoomLevel' = setZoomLevel(level)
    /\ UNCHANGED <<gestureStatus, focusTarget, saturnRotation>>
    /\ Record([op |-> "setZoomLevel", arg |-> level])

CallIncreaseZoom(amount) ==
    /\ zoomLevel' = increaseZoom(amount)
    /\ UNCHANGED <<gestureStatus, focusTarget, saturnRotation>>
    /\ Record([op |-> "increaseZoom", arg |-> amount])

CallDecreaseZoom(amount) ==
    /\ zoomLevel' = decreaseZoom(amount)
    /\ UNCHANGED <<gestureStatus, focusTarget, saturnRotation>>
    /\ Record([op |-> "decreaseZoom", arg |-> amount])

CallSetGestureStatus(status) ==
    /\ gestureStatus' = setGestureStatus(status)
    /\ UNCHANGED <<zoomLevel, focusTarget, saturnRotation>>
    /\ Record([op |-> "setGestureStatus", arg |-> status])

CallSetFocusTarget(target) ==
    /\ focusTarget' = setFocusTarget(target)
    /\ UNCHANGED <<zoomLevel, gestureStatus, saturnRotation>>
    /\ Record([op |-> "setFocusTarget", arg |-> target])

CallSetSaturnRotation(x, y) ==
    /\ saturnRotation' = setSaturnRotation(x, y)
    /\ UNCHANGED <<zoomLevel, gestureStatus, focusTarget>>
    /\ Record([op |-> "setSaturnRotation", arg |-> <<x, y>>])

\* Arguments a caller may pass: numbers inside, on and outside the range, and NaN.
Levels ==
    {NaN, Fin(-2000000), Fin(MIN_ZOOM), Fin(0), Fin(600000), Fin(MAX_ZOOM), Fin(3000000)}
Amounts == {NaN, Fin(400000), Fin(-400000), Fin(2000000)}
Angles == {0, 100}

StoreNext ==
    \/ \E level \in Levels : CallSetZoomLevel(level)
    \/ \E amount \in Amounts : CallIncreaseZoom(amount)
    \/ \E amount \in Amounts : CallDecreaseZoom(amount)
    \/ \E status \in GestureLabels : CallSetGestureStatus(status)
    \/ \E target \in FocusTargets : CallSetFocusTarget(target)
    \/ \E x \in Angles, y \in Angles : CallSetSaturnRotation(x, y)

StoreSpec == Init /\ [][StoreNext]_vars

----------------------------------------------------------------------------
(* A caller that only zooms, by positive amounts *)

\* One unit in the last place of the values just below MAX_ZOOM.
Ulp == Quantum(MAX_ZOOM - 1)

PositiveAmounts == {Fin(Ulp \div 4), Fin(Ulp), Fin(ZOOM_STEP), Fin(400000)}

ZoomNext ==
    \/ \E amount \in PositiveAmounts : CallIncreaseZoom(amount)
    \/ \E amount \in PositiveAmounts : CallDecreaseZoom(amount)

ZoomSpec == Init /\ [][ZoomNext]_vars

----------------------------------------------------------------------------
(* The effect of HandTracker from mount to cleanup, setup failures included *)

\* The scenes the camera is shown here: no hand, an open hand, a hand showing
\* two fingers, a malformed list.
LifeDrivers ==
    {NoHandScene,
     Scene(<<"up", "up", "up", "up">>, "far", 40, 21),
     Scene(<<"up", "up", "down", "down">>, "far", 40, 21),
     Scene(<<"up", "up", "down", "down">>, "far", 40, 20)}

LifecycleNext ==
    \/ SetupMediaPipe
    \/ SetupFails
    \/ StartWebcam
    \/ WebcamFails
    \/ \E detached \in BOOLEAN : Cleanup(detached)
    \/ \E sized \in BOOLEAN : \E sc \in ScenesWhen(sized, LifeDrivers) :
            LoadedData(FALSE, sized, sc)
    \/ \E sized \in BOOLEAN : \E sc \in ScenesWhen(sized, LifeDrivers) :
            AnimationFrame(FALSE, sized, sc)

LifecycleSpec == Init /\ [][LifecycleNext]_vars

----------------------------------------------------------------------------
(* The tick loop under a video that fires loadeddata any number of times *)

\* What the camera is shown here: no hand, an open hand, a hand showing two
\* fingers.
ReloadDrivers ==
    {NoHandScene,
     Scene(<<"up", "up", "up", "up">>, "far", 40, 21),
     Scene(<<"up", "up", "down", "down">>, "far", 40, 21)}

ReloadNext ==
    \/ SetupMediaPipe
    \/ StartWebcam
    \/ \E sized \in BOOLEAN : \E sc \in ScenesWhen(sized, ReloadDrivers) :
            LoadedData(FALSE, sized, sc)
    \/ \E sized \in BOOLEAN : \E sc \in ScenesWhen(sized, ReloadDrivers) :
            LoadedDataAgain(FALSE, sized, sc)
    \/ \E sized \in BOOLEAN : \E sc \in ScenesWhen(sized, ReloadDrivers) :
            AnimationFrame(FALSE, sized, sc)

ReloadSpec == Init /\ [][ReloadNext]_vars

----------------------------------------------------------------------------
(* The rendered view: gesture ticks and rendered frames *)

\* What the camera is shown here: no hand, and one hand for each gesture that
\* writes to the store, two for POINT.
ViewDrivers ==
    {NoHandScene,
     Scene(<<"up", "up", "up", "down">>, "far", 40, 21),
     Scene(<<"up", "up", "down", "down">>, "far", 40, 21),
     Scene(<<"up", "down", "down", "down">>, "far", 40, 21),
     Scene(<<"up", "down", "down", "down">>, "near", 30, 21),
     Scene(<<"up", "up", "up", "up">>, "far", 40, 21),
     Scene(<<"down", "down", "down", "down">>, "near", 40, 21)}

ViewNext ==
    \/ SetupMediaPipe
    \/ StartWebcam
    \/ \E sc \in ViewDrivers : LoadedData(TRUE, TRUE, sc)
    \/ \E sc \in ViewDrivers : AnimationFrame(TRUE, TRUE, sc)
    \/ \E t \in Times : Frame(t)

ViewSpec == Init /\ [][ViewNext]_vars

\* The standard view under a caller that sets the zoom: levels all over the
\* range, on its ends, next to zero and outside of it.
ViewLevels ==
    {Fin(-2000000), Fin(MIN_ZOOM), Fin(-250000), Fin(-1000), Fin(0), Fin(1000),
     Fin(600000), Fin(MAX_ZOOM), Fin(3000000)}

ZoomViewNext ==
    \/ \E level \in ViewLevels : CallSetZoomLevel(level)
    \/ \E t \in Times : Frame(t)

ZoomViewSpec == Init /\ [][ZoomViewNext]_vars

----------------------------------------------------------------------------
(* The scene under a caller that sets and steps the zoom with any argument *)

\* Levels and amounts on the range's ends, past them, and NaN.
SceneLevels == {NaN, Fin(MIN_ZOOM), Fin(MAX_ZOOM), Fin(1000001), Fin(3000000)}
SceneAmounts == {NaN, Fin(2000000)}

SceneNext ==
    \/ \E level \in SceneLevels : CallSetZoomLevel(level)
    \/ \E amount \in SceneAmounts : CallIncreaseZoom(amount)
    \/ \E amount \in SceneAmounts : CallDecreaseZoom(amount)
    \/ \E t \in Times : Frame(t)

SceneSpec == Init /\ [][SceneNext]_vars

----------------------------------------------------------------------------
(* Properties of the store under direct callers *)

InRange(z) == ~z.nan /\ MIN_ZOOM <= z.v /\ z.v <= MAX_ZOOM

\* C1: after any sequence of setZoomLevel, increaseZoom and decreaseZoom calls
\* with any arguments, zoomLevel lies in [MIN_ZOOM, MAX_ZOOM].
\* (Math.min and Math.max return NaN for a NaN argument: the claim fails.)
C1_ZoomAlwaysInRange == InRange(zoomLevel)

IsInc(c) == c.op = "increaseZoom"
IsDec(c) == c.op = "decreaseZoom"

\* What a step that is a call of increaseZoom / decreaseZoom must do to saturate
\* without overshoot or oscillation.
IncSaturates ==
    /\ zoomLevel'.v <= MAX_ZOOM
    /\ zoomLevel'.v >= zoomLevel.v
    /\ zoomLevel'.v = MAX_ZOOM \/ zoomLevel'.v > zoomLevel.v
DecSaturates ==
    /\ zoomLevel'.v >= MIN_ZOOM
    /\ zoomLevel'.v <= zoomLevel.v
    /\ zoomLevel'.v = MIN_ZOOM \/ zoomLevel'.v < zoomLevel.v

SixtyStepsReachMax == run >= 60 => zoomLevel = Fin(MAX_ZOOM)

\* C2 as stated: every increaseZoom(d) with d > 0 either reaches 1.0 or moves
\* zoomLevel strictly up (so a repetition reaches 1.0 in finitely many calls and
\* stays), never down and never past 1.0; symmetrically for decreaseZoom and
\* -0.5; and 60 calls of increaseZoom(0.015) from the default end at 1.0.
C2_AnyPositiveAmountSaturates ==
    /\ [](SixtyStepsReachMax)
    /\ [][/\ (IsInc(lastOp') /\ lastOp'.arg.v > 0) => IncSaturates
          /\ (IsDec(lastOp') /\ lastOp'.arg.v > 0) => DecSaturates]_vars

\* C2 amended: the same for every amount d of at least one unit in the last
\* place of the values below 1.0 (a smaller d > 0 can be absorbed by the
\* rounding of zoomLevel + d and then never moves zoomLevel).
C2_RepresentableAmountSaturates ==
    /\ [](SixtyStepsReachMax)
    /\ [][/\ (IsInc(lastOp') /\ lastOp'.arg.v >= Ulp) => IncSaturates
          /\ (IsDec(lastOp') /\ lastOp'.arg.v >= Ulp) => DecSaturates]_vars

\* Witness of C2: the run of 60 increaseZoom(0.015) calls has been made and the
\* store sits at MAX_ZOOM.
C2_Witness ==
    /\ run = 60
    /\ lastOp = [op |-> "increaseZoom", arg |-> Fin(ZOOM_STEP)]
    /\ zoomLevel = Fin(MAX_ZOOM)

FocusEarth == [op |-> "setFocusTarget", arg |-> "EARTH"]

\* C10: setFocusTarget(EARTH) sets focusTarget to EARTH and nothing else, and a
\* second call right after the first finds focusTarget = EARTH and leaves the
\* whole store as the first call left it.
C10_SetFocusTargetIdempotent ==
    [][/\ lastOp' = FocusEarth =>
            /\ focusTarget' = "EARTH"
            /\ UNCHANGED <<zoomLevel, gestureStatus, saturnRotation>>
       /\ (lastOp = FocusEarth /\ lastOp' = FocusEarth) =>
            /\ focusTarget = "EARTH"
            /\ UNCHANGED storeVars]_vars

\* Witness of C10: setFocusTarget(EARTH) was just called twice in a row, on a
\* store whose other fields are not the defaults.
C10_Witness ==
    /\ lastOp = FocusEarth
    /\ rep = 2
    /\ focusTarget = "EARTH"
    /\ gestureStatus = "OPEN"
    /\ zoomLevel = Fin(600000)

----------------------------------------------------------------------------
(* Properties of the tick *)

\* A step that is a run of predictWebcam (the other steps are the two of the
\* setup, which change handLandmarker and listening).
TickStep == handLandmarker' = handLandmarker /\ listening' = listening

\* A run that got as far as the results.landmarks test and did not throw.
Processed(kind) == kind \in {"hand", "nohand"}

\* The probe is a hand with all 21 landmarks.
WellFormedProbe == probe.hand /\ probe.len = 21
ProbeLandmarks == LandmarksOf[probe]

\* C3: a run given a hand of 21 landmarks stores one of the six labels, and
\* whenever the same hand is processed again, whatever the store held in
\* between, the run stores the label it stored before and, for POINT, the
\* rotation it stored before.
C3_ClassificationTotalDeterministic ==
    /\ []((onProbe /\ WellFormedProbe) =>
            (lastTick = "hand" /\ gestureStatus \in GestureLabels))
    /\ [][(TickStep /\ onProbe' /\ lastTick' = "hand" /\ probed.seen) =>
            /\ gestureStatus' = probed.label
            /\ gestureStatus' = "POINT" => saturnRotation' = probed.rotation]_vars

\* Witness of C3: the probe, a POINT hand, was processed twice, and a run that
\* moved the zoom was made as well.
C3_Witness ==
    /\ onProbe
    /\ probed.times = 2
    /\ gestureStatus = "POINT"
    /\ saturnRotation = probed.rotation
    /\ zoomLevel # Fin(ZoomDefault)

\* C4: a run that finds no hand stores IDLE, and a run that stores IDLE, with or
\* without a hand, changes no other field of the store.
C4_IdleChangesOnlyLabel ==
    [][TickStep =>
        /\ lastTick' = "nohand" => gestureStatus' = "IDLE"
        /\ (Processed(lastTick') /\ gestureStatus' = "IDLE") =>
                UNCHANGED <<zoomLevel, focusTarget, saturnRotation>>]_vars

\* Witness of C4: a no-hand run has left IDLE on a store that is focused on the
\* Moon, zoomed to the maximum and rotated.
C4_Witness ==
    /\ lastTick = "nohand"
    /\ gestureStatus = "IDLE"
    /\ focusTarget = "MOON"
    /\ zoomLevel = Fin(MAX_ZOOM)
    /\ saturnRotation # [x |-> 0, y |-> 0]

\* The finger tests of the variant built: finger k (1 index .. 4 pinky) counts as
\* extended, and as not extended (the wrist variant negates its test, the
\* vertical variant asks for the tip below the joint).
FingerUp(lm, k) ==
    IF variant = "wrist" THEN isExtended(lm, 4 + 4 * k, 2 + 4 * k)
    ELSE isTipAbove(lm, 4 + 4 * k, 2 + 4 * k)
FingerDown(lm, k) ==
    IF variant = "wrist" THEN ~isExtended(lm, 4 + 4 * k, 2 + 4 * k)
    ELSE isTipBelow(lm, 4 + 4 * k, 2 + 4 * k)

\* The condition of each rule, taken alone.
Rule(label, lm) ==
    CASE label = "THREE" -> FingerUp(lm, 1) /\ FingerUp(lm, 2) /\ FingerUp(lm, 3) /\ FingerDown(lm, 4)
      [] label = "TWO" -> FingerUp(lm, 1) /\ FingerUp(lm, 2) /\ FingerDown(lm, 3) /\ FingerDown(lm, 4)
      [] label = "POINT" -> FingerUp(lm, 1) /\ FingerDown(lm, 2) /\ FingerDown(lm, 3) /\ FingerDown(lm, 4)
      [] label = "OPEN" -> FingerUp(lm, 1) /\ FingerUp(lm, 2) /\ FingerUp(lm, 3) /\ FingerUp(lm, 4)
      [] label = "PINCH" -> isPinch(lm)
      [] label = "IDLE" -> TRUE

\* The place of each rule in the order THREE, TWO, POINT, OPEN, PINCH, IDLE.
Rank(label) ==
    CASE label = "THREE" -> 1 [] label = "TWO" -> 2 [] label = "POINT" -> 3
      [] label = "OPEN" -> 4 [] label = "PINCH" -> 5 [] label = "IDLE" -> 6

\* C5: the label stored for a hand is that of the earliest rule, in the order
\* THREE, TWO, POINT, OPEN, PINCH, IDLE, whose condition the hand satisfies; so
\* a hand with the shape of THREE, TWO, POINT or OPEN and a pinch distance below
\* the threshold gets the label of its shape, not PINCH.
C5_FirstMatchWins ==
    (onProbe /\ WellFormedProbe /\ lastTick = "hand") =>
        /\ Rule(gestureStatus, ProbeLandmarks)
        /\ \A l \in GestureLabels :
              Rule(l, ProbeLandmarks) => Rank(gestureStatus) <= Rank(l)
        /\ \A l \in {"THREE", "TWO", "POINT", "OPEN"} :
              (Rule(l, ProbeLandmarks) /\ isPinch(ProbeLandmarks)) => gestureStatus = l

\* Witness of C5: the hand processed last has the shape of POINT and a pinch
\* distance below the threshold.
C5_Witness ==
    /\ onProbe /\ WellFormedProbe /\ lastTick = "hand"
    /\ Rule("POINT", ProbeLandmarks)
    /\ isPinch(ProbeLandmarks)
    /\ gestureStatus = "POINT"

\* C6: a run that stores THREE, TWO, POINT or PINCH leaves focusTarget at MOON,
\* EARTH, SATURN or NONE, whatever it was before; and a hand with index and
\* middle up and ring and pinky folded gets TWO and EARTH.
C6_LabelSetsFocus ==
    /\ []((onProbe /\ WellFormedProbe /\ probe.pose = <<"up", "up", "down", "down">>) =>
            (gestureStatus = "TWO" /\ focusTarget = "EARTH"))
    /\ [][(TickStep /\ lastTick' = "hand") =>
            /\ gestureStatus' = "THREE" => focusTarget' = "MOON"
            /\ gestureStatus' = "TWO" => focusTarget' = "EARTH"
            /\ gestureStatus' = "POINT" => focusTarget' = "SATURN"
            /\ gestureStatus' = "PINCH" => focusTarget' = "NONE"]_vars

\* Witness of C6: the hand with index and middle up was processed, after a run
\* that had focused another body, and the store holds TWO and EARTH.
C6_Witness ==
    /\ onProbe /\ WellFormedProbe
    /\ probe.pose = <<"up", "up", "down", "down">>
    /\ ticks = 3
    /\ saturnRotation # [x |-> 0, y |-> 0]
    /\ gestureStatus = "TWO"
    /\ focusTarget = "EARTH"

Clamp(n) == IF n < MIN_ZOOM THEN MIN_ZOOM ELSE IF n > MAX_ZOOM THEN MAX_ZOOM ELSE n

\* C7: a run that stores OPEN moves zoomLevel to zoomLevel + 0.015 and one that
\* stores PINCH to zoomLevel - 0.015, both clamped to [-0.5, 1.0]; a run that
\* stores another label or finds no hand leaves zoomLevel as it was.
C7_OpenPinchStepZoom ==
    [][(TickStep /\ Processed(lastTick')) =>
        /\ ~zoomLevel'.nan
        /\ zoomLevel'.v =
              CASE gestureStatus' = "OPEN" -> Clamp(zoomLevel.v + 15000)
                [] gestureStatus' = "PINCH" -> Clamp(zoomLevel.v - 15000)
                [] OTHER -> zoomLevel.v]_vars

\* Witness of C7: a PINCH run has brought zoomLevel down onto MIN_ZOOM.
C7_Witness ==
    /\ lastTick = "hand"
    /\ gestureStatus = "PINCH"
    /\ zoomLevel = Fin(MIN_ZOOM)

\* C8 as stated: whenever the same hand is processed again and gets THREE, TWO,
\* POINT or OPEN, focusTarget is what it was after the run before (it depends on
\* the label alone); and PINCH leaves NONE.
C8_EveryShapeSelectsFocus ==
    [][(TickStep /\ lastTick' = "hand") =>
        /\ (onProbe' /\ probed.seen
              /\ gestureStatus' \in {"THREE", "TWO", "POINT", "OPEN"}) =>
                focusTarget' = probed.focus
        /\ gestureStatus' = "PINCH" => focusTarget' = "NONE"]_vars

\* C8 amended: that holds of THREE, TWO and POINT; a run that stores OPEN leaves
\* focusTarget as it was before the run; PINCH leaves NONE.
C8_ShapesButOpenSelectFocus ==
    [][(TickStep /\ lastTick' = "hand") =>
        /\ (onProbe' /\ probed.seen /\ gestureStatus' \in {"THREE", "TWO", "POINT"}) =>
                focusTarget' = probed.focus
        /\ gestureStatus' = "OPEN" => focusTarget' = focusTarget
        /\ gestureStatus' = "PINCH" => focusTarget' = "NONE"]_vars

\* Witness of C8: an open hand was processed twice, the second time with the
\* Earth in focus, and the Earth is still in focus.
C8_Witness ==
    /\ onProbe
    /\ probed.times = 2
    /\ gestureStatus = "OPEN"
    /\ focusTarget = "EARTH"

\* C9: a run given a landmark list of fewer than 21 points does not throw: it
\* stores IDLE and requests the next run.
\* (Both variants read landmarks[20]: the run throws, stores nothing and
\* requests nothing.)
C9_MalformedFrameIsIdle ==
    (onProbe /\ probe.hand /\ probe.len < 21) =>
        (lastTick # "threw" /\ gestureStatus = "IDLE" /\ rafPending >= 1)

----------------------------------------------------------------------------
(* Properties of the effect's life *)

Defaults ==
    /\ zoomLevel = Fin(ZoomDefault)
    /\ gestureStatus = "IDLE"
    /\ focusTarget = "NONE"
    /\ saturnRotation = [x |-> 0, y |-> 0]

\* A step in which predictWebcam got as far as processing a frame.
FrameProcessed == setup' = setup /\ cleanups' = cleanups /\ Processed(lastTick')

\* C11: the store starts with zoomLevel 0.2, IDLE, NONE and (0, 0) and holds
\* exactly these until a run of predictWebcam processes a frame; once loading
\* the model or acquiring the camera has failed, predictWebcam never runs, none
\* is requested, and the store holds the defaults for good.
C11_DefaultsUntilFirstFrame ==
    /\ [](lastTick = "none" => Defaults)
    /\ [][(Defaults /\ ~FrameProcessed) => Defaults']_vars
    /\ [](setup = "failed" =>
            (Defaults /\ lastTick = "none" /\ rafPending = 0 /\ ~listening /\ ~loaded))

\* Witness of C11: the model was loaded, acquiring the camera failed, and the
\* cleanup has run since; the store holds the defaults.
C11_Witness ==
    /\ setup = "failed"
    /\ handLandmarker = "closed"
    /\ cleanups = 1
    /\ Defaults

\* C14: once the cleanup has run, no run of predictWebcam is requested, the
\* camera stream is not live, the handLandmarker is not left open, and no field
\* of the store changes any more; whatever the setup was doing when it ran.
\* (A cleanup that runs while the model is loading closes nothing: the setup
\* goes on, opens the handLandmarker and the camera, and the ticks start.)
C14_CleanShutdown ==
    /\ [](cleanups > 0 =>
            (rafPending = 0 /\ stream # "live" /\ handLandmarker # "ready"))
    /\ [][cleanups > 0 => UNCHANGED storeVars]_vars

----------------------------------------------------------------------------
(* Properties of the rendered view *)

\* The distance the standard view is said to keep, in hundredths, for a zoom in
\* thousandths: 60 + (|zoom| / 0.5) * 30 below zero, 60 - 56 * zoom from zero on.
SaidDistance(zoom) ==
    IF zoom < 0 THEN 6000 + 6 * Abs(zoom) ELSE 6000 - RoundDiv(56 * zoom, 10)

\* C12: a frame rendered with focusTarget NONE aims the camera at (0, 20, z)
\* with z the said distance of the zoom alone: 60, the camera's first z, at 0,
\* 90 at -0.5, 4 at 1.0, within [4, 90]; and of two such frames in a row, the one
\* with the larger zoom has the smaller or the same z.
C12_StandardViewDistance ==
    /\ [](framed.focus = "NONE" =>
            /\ framed.target[1] = 0 /\ framed.target[2] = 2000
            /\ framed.target[3] = SaidDistance(framed.zoom)
            /\ 400 <= framed.target[3] /\ framed.target[3] <= 9000
            /\ framed.zoom = 0 => framed.target[3] = 6000
            /\ framed.zoom = -500 => framed.target[3] = 9000
            /\ framed.zoom = 1000 => framed.target[3] = 400)
    /\ [][(framed.focus = "NONE" /\ framed'.focus = "NONE") =>
            /\ framed.zoom <= framed'.zoom => framed.target[3] >= framed'.target[3]
            /\ framed.zoom >= framed'.zoom => framed.target[3] <= framed'.target[3]]_vars

\* Witness of C12: a frame of the standard view is rendered at elapsed time 10 and
\* zoom -0.5; it aims at z = 90 and has moved the camera back from z = 60.
C12_Witness ==
    /\ clock = 10
    /\ framed.focus = "NONE"
    /\ framed.zoom = -500
    /\ framed.target = Vector3(0, 2000, 9000)
    /\ camera.pos[3] > 6000

Near(p, q) == \A i \in 1..3 : Abs(p[i] - q[i]) <= 3

\* C13: a frame rendered with focusTarget MOON at elapsed time t looks at the
\* place of the Moon at t, the Earth's place on its orbit plus the Moon's offset
\* around the Earth, and aims the camera at that place plus (1, 0.5, 2).
\* (The code turns the Moon's offset by the Moon's own angle only; the scene
\* turns it by the angle of the Earth's group as well.)
C13_MoonViewFollowsMoon ==
    framed.focus = "MOON" =>
        /\ Near(framed.aim, MoonPosition(clock))
        /\ Near(framed.target, VecAdd(MoonPosition(clock), Vector3(100, 50, 200)))

\* A step that renders a frame.
FrameStep == clock' # clock

\* The target a frame is said to aim the camera at, from the places of the
\* bodies in the scene (for the Moon, the place the camera logic takes it at).
SaidTarget(focus, zoom, t) ==
    CASE focus = "SATURN" -> VecAdd(SaturnPosition(t), Vector3(500, 400, 900))
      [] focus = "EARTH" -> VecAdd(EarthPosition(t), Vector3(200, 100, 400))
      [] focus = "MOON" ->
            VecAdd(VecAdd(EarthPosition(t), RotateY(MoonAngle(t), Vector3(350, 0, 0))),
                   Vector3(100, 50, 200))
      [] OTHER -> Vector3(0, 2000, SaidDistance(zoom))

Smoothed(a, b) ==
    <<a[1] + RoundDiv((b[1] - a[1]) * 5, 100),
      a[2] + RoundDiv((b[2] - a[2]) * 5, 100),
      a[3] + RoundDiv((b[3] - a[3]) * 5, 100)>>

\* What every frame does to the camera position: smoothing by 0.05 towards the
\* target, never a jump onto it.
PositionSmoothed ==
    /\ camera'.pos = Smoothed(camera.pos, framed'.target)
    /\ camera.pos # framed'.target => camera'.pos # framed'.target

\* The look-at point of a frame got by smoothing: the point one unit ahead of
\* the camera moved towards the look-at target by 0.05.
LookAtSmoothed ==
    camera'.look = Smoothed(CurrentLookAt(camera'.pos, camera.fwd), framed'.aim)

\* C19 as stated: every frame, whatever the focus, smooths both the camera
\* position and the look-at point towards their targets by 0.05.
C19_PositionAndLookAtSmoothed ==
    [][FrameStep => (PositionSmoothed /\ LookAtSmoothed)]_vars

\* C19 amended: every frame smooths the camera position by 0.05; the look-at
\* point is smoothed by 0.05 with the focus NONE only, and with the focus on
\* SATURN, EARTH or MOON the camera is turned straight at the look-at target.
C19_PositionSmoothedLookAtOnlyUnfocused ==
    [][FrameStep =>
        /\ PositionSmoothed
        /\ focusTarget = "NONE" => LookAtSmoothed
        /\ focusTarget # "NONE" => camera'.look = framed'.aim]_vars

\* Witness of C19: the third frame was rendered with the focus on the Earth: the
\* camera looks at the Earth and is still away from its target.
C19_Witness ==
    /\ clock = 10
    /\ ticks >= 2
    /\ framed.focus = "EARTH"
    /\ camera.look = EarthPosition(10)
    /\ ~Near(camera.pos, framed.target)

\* Saturn's body rotation after a frame that smooths it towards saturnRotation
\* by rate (in hundredths).
BodySmoothed(rate) ==
    saturnBody' =
        [x |-> RoundDiv((100 - rate) * saturnBody.x + rate * 10 * saturnRotation.x, 100),
         z |-> RoundDiv((100 - rate) * saturnBody.z + rate * 10 * saturnRotation.y, 100)]

\* C20 as stated: a frame rendered with the focus on SATURN smooths the body's
\* rotation towards saturnRotation by 0.05, the rate of the camera.
C20_BodyRotationAtCameraRate ==
    [][(FrameStep /\ focusTarget = "SATURN") => BodySmoothed(5)]_vars

\* C20 amended: it smooths it by 0.1, twice the rate of the camera.
C20_BodyRotationAtItsOwnRate ==
    [][(FrameStep /\ focusTarget = "SATURN") => BodySmoothed(10)]_vars

\* Witness of C20: two frames were rendered with the focus on Saturn and a
\* rotation pointed at; the body is on its way, past the first step.
C20_Witness ==
    /\ clock = 10
    /\ framed.focus = "SATURN"
    /\ saturnRotation = [x |-> -40, y |-> -40]
    /\ saturnBody = [x |-> -76, z |-> -76]

----------------------------------------------------------------------------
(* Properties of the classification *)

\* The hand the last run processed is the probe.
ProbeProcessed == onProbe /\ WellFormedProbe /\ lastTick = "hand"

\* The four fingers of the probe: extended or not, by the extended test of the
\* variant built.
Ext(k) == FingerUp(ProbeLandmarks, k)

\* The tip of finger k of the probe is level with its joint.
Level(k) == probe.pose[k] = "level"

\* C15 as stated: index, middle and ring extended and pinky not extended gets
\* THREE; index and middle extended, ring and pinky not, TWO; index extended,
\* the other three not, POINT; all four extended, OPEN; "not extended" being
\* the negation of the extended test, level fingertips included.
C15_ShapesByExtendedAndNegation ==
    ProbeProcessed =>
        /\ (Ext(1) /\ Ext(2) /\ Ext(3) /\ ~Ext(4)) => gestureStatus = "THREE"
        /\ (Ext(1) /\ Ext(2) /\ ~Ext(3) /\ ~Ext(4)) => gestureStatus = "TWO"
        /\ (Ext(1) /\ ~Ext(2) /\ ~Ext(3) /\ ~Ext(4)) => gestureStatus = "POINT"
        /\ (Ext(1) /\ Ext(2) /\ Ext(3) /\ Ext(4)) => gestureStatus = "OPEN"

\* Finger k of the probe counts as not extended: by the negation of the extended
\* test in the wrist variant, by its tip lying strictly below the joint in the
\* vertical variant.
Folded(k) == FingerDown(ProbeLandmarks, k)

\* C15 amended: the same with "not extended" as the variant built tests it; in
\* the vertical variant a hand with the tip of a finger that is not extended
\* level with its joint has none of the four shapes, and gets PINCH or IDLE.
C15_ShapesByExtendedAndFolded ==
    ProbeProcessed =>
        /\ (Ext(1) /\ Ext(2) /\ Ext(3) /\ Folded(4)) => gestureStatus = "THREE"
        /\ (Ext(1) /\ Ext(2) /\ Folded(3) /\ Folded(4)) => gestureStatus = "TWO"
        /\ (Ext(1) /\ Folded(2) /\ Folded(3) /\ Folded(4)) => gestureStatus = "POINT"
        /\ (Ext(1) /\ Ext(2) /\ Ext(3) /\ Ext(4)) => gestureStatus = "OPEN"
        /\ (variant = "wrist" /\ gestureStatus \in {"PINCH", "IDLE"}) =>
                \/ ~Ext(1)
                \/ ~Ext(2) /\ Ext(3)
                \/ ~Ext(2) /\ Ext(4)
                \/ ~Ext(3) /\ Ext(4)
        /\ (variant = "vertical" /\ \E k \in 2..4 : Level(k)) =>
                gestureStatus \in {"PINCH", "IDLE"}

\* Witness of C15: in the vertical variant, a hand with index, middle and ring
\* extended and the pinky tip level with its joint was processed and got IDLE.
C15_Witness ==
    /\ ProbeProcessed
    /\ variant = "vertical"
    /\ Ext(1) /\ Ext(2) /\ Ext(3) /\ Level(4)
    /\ gestureStatus = "IDLE"

\* One of the four shape rules holds of the probe.
ShapeMatched == \E l \in {"THREE", "TWO", "POINT", "OPEN"} : Rule(l, ProbeLandmarks)

\* The squared distance between thumb tip and index tip of the probe.
PinchDistSq == DistSq(ProbeLandmarks[4], ProbeLandmarks[8])

\* C16: a hand gets PINCH exactly when none of the four shape rules matched and
\* the distance between thumb tip and index tip is strictly below 0.05; when
\* none matched and the distance is 0.05 or more, it gets IDLE.
C16_PinchIffNoShapeAndClose ==
    ProbeProcessed =>
        /\ gestureStatus = "PINCH" <=> (~ShapeMatched /\ PinchDistSq < 25)
        /\ (~ShapeMatched /\ PinchDistSq >= 25) => gestureStatus = "IDLE"

\* Witness of C16: a fist with the thumb tip exactly 0.05 away from the index
\* tip was processed and got IDLE.
C16_Witness ==
    /\ ProbeProcessed
    /\ ~ShapeMatched
    /\ PinchDistSq = 25
    /\ gestureStatus = "IDLE"

\* C17: a run that stores POINT sets saturnRotation to ((indexTip.y - 0.5) * 4,
\* (indexTip.x - 0.5) * 4), both within [-2, 2]; a run that stores any other
\* label, or finds no hand, leaves saturnRotation as it was.
C17_PointSetsRotation ==
    /\ []((ProbeProcessed /\ gestureStatus = "POINT") =>
            /\ saturnRotation.x = (ProbeLandmarks[8].y - 50) * 4
            /\ saturnRotation.y = (ProbeLandmarks[8].x - 50) * 4
            /\ -200 <= saturnRotation.x /\ saturnRotation.x <= 200
            /\ -200 <= saturnRotation.y /\ saturnRotation.y <= 200)
    /\ [][(TickStep /\ Processed(lastTick') /\ ticks' # ticks
              /\ gestureStatus' # "POINT") =>
            saturnRotation' = saturnRotation]_vars

\* Witness of C17: a hand pointing at the bottom right corner of the frame got
\* POINT and the rotation (2, 2).
C17_Witness ==
    /\ ProbeProcessed
    /\ gestureStatus = "POINT"
    /\ ProbeLandmarks[8] = Pt(100, 100)
    /\ saturnRotation = [x |-> 200, y |-> 200]

----------------------------------------------------------------------------
(* Properties of the store and the view together *)

\* A rotation is driven towards a target: it gets no further from it, and
\* closer when it is at least a twentieth of a radian away.
Driven(from, to, target) ==
    /\ Abs(target - to) <= Abs(target - from)
    /\ Abs(target - from) >= 50 => Abs(target - to) < Abs(target - from)

BodyDriven ==
    /\ Driven(saturnBody.x, saturnBody'.x, 10 * saturnRotation.x)
    /\ Driven(saturnBody.z, saturnBody'.z, 10 * saturnRotation.y)

\* C21 as stated: a frame drives Saturn's body towards saturnRotation when the
\* store holds SATURN and POINT, and in every other combination of focusTarget
\* and gestureStatus it leaves the body's rotation as it was.
C21_RotationReadOnlyWhilePointing ==
    [][FrameStep =>
        IF focusTarget = "SATURN" /\ gestureStatus = "POINT"
        THEN BodyDriven
        ELSE saturnBody' = saturnBody]_vars

\* C21 amended: a frame drives the body towards saturnRotation when the store
\* holds SATURN, whatever the label (IDLE after the hand was withdrawn, OPEN),
\* and leaves the body's rotation as it was under every other focus; nothing
\* but a frame moves the body.
C21_RotationReadWhileSaturnInFocus ==
    [][IF FrameStep
       THEN IF focusTarget = "SATURN" THEN BodyDriven ELSE saturnBody' = saturnBody
       ELSE saturnBody' = saturnBody]_vars

\* Witness of C21: the hand that pointed was withdrawn, and frames rendered
\* under SATURN and IDLE have moved the body on towards the rotation pointed at.
C21_Witness ==
    /\ clock = 10
    /\ focusTarget = "SATURN"
    /\ gestureStatus = "IDLE"
    /\ framed.focus = "SATURN"
    /\ framed.label = "IDLE"
    /\ saturnRotation = [x |-> -40, y |-> -40]
    /\ saturnBody = [x |-> -108, z |-> -108]

\* A run of predictWebcam that got past its guards and through its body.
PassedGuards(kind) == kind \in {"unsized", "nohand", "hand"}

\* C22: whatever the number and the timing of the loadeddata events, at most
\* one predictWebcam callback is requested at any time, and a run that passes
\* its guards leaves exactly one requested.
\* (Every loadeddata event runs predictWebcam, which requests a callback
\* besides the one the chain before it has pending.)
C22_OneTickPending ==
    /\ [](rafPending <= 1)
    /\ [][(TickStep /\ PassedGuards(lastTick')) => rafPending' = 1]_vars

\* The focus a label goes with.
FocusOf(label) ==
    CASE label = "THREE" -> "MOON"
      [] label = "TWO" -> "EARTH"
      [] label = "POINT" -> "SATURN"
      [] label = "PINCH" -> "NONE"

FocusLabels == {"THREE", "TWO", "POINT", "PINCH"}

\* C23: between the runs of predictWebcam the store holds a label and a focus
\* that go together (THREE with MOON, TWO with EARTH, POINT with SATURN, PINCH
\* with NONE), and a run that changes the focus leaves with it the label that
\* chose it, never the label of the run before.
C23_LabelAndFocusConsistent ==
    /\ [](gestureStatus \in FocusLabels => focusTarget = FocusOf(gestureStatus))
    /\ [][focusTarget' # focusTarget =>
            /\ gestureStatus' \in FocusLabels
            /\ focusTarget' = FocusOf(gestureStatus')]_vars

\* Witness of C23: after runs that pointed at Saturn and zoomed, a run on three
\* fingers has left THREE and MOON.
C23_Witness ==
    /\ lastTick = "hand"
    /\ saturnRotation # [x |-> 0, y |-> 0]
    /\ zoomLevel # Fin(ZoomDefault)
    /\ gestureStatus = "THREE"
    /\ focusTarget = "MOON"

\* C24: a run that finds no hand, or stores IDLE or OPEN, leaves focusTarget as
\* it was; focusTarget changes only in a run that stores THREE, TWO, POINT or
\* PINCH; and it goes back to NONE only in a run that stores PINCH, which takes
\* 0.015 off zoomLevel, clamped to [-0.5, 1.0].
C24_FocusSticky ==
    [][/\ (TickStep /\ (lastTick' # "hand" \/ gestureStatus' \in {"IDLE", "OPEN"})) =>
            focusTarget' = focusTarget
       /\ focusTarget' # focusTarget =>
            (TickStep /\ lastTick' = "hand" /\ gestureStatus' \in FocusLabels)
       /\ (focusTarget # "NONE" /\ focusTarget' = "NONE") =>
            /\ gestureStatus' = "PINCH"
            /\ ~zoomLevel'.nan
            /\ zoomLevel'.v = Clamp(zoomLevel.v - 15000)]_vars

\* Witness of C24: the Moon was put in focus, the zoom has gone up to its
\* maximum under an open hand, the hand was withdrawn, and the Moon is still in
\* focus.
C24_Witness ==
    /\ lastTick = "nohand"
    /\ gestureStatus = "IDLE"
    /\ zoomLevel = Fin(MAX_ZOOM)
    /\ focusTarget = "MOON"

\* The tip and the joint of finger k (1 index .. 4 pinky).
TipOf(k) == 4 * k + 4
PipOf(k) == 4 * k + 2

\* The two variants find the same fingers extended, and no fingertip is level
\* with its joint.
SameFlags(lm) ==
    \A k \in 1..4 : isExtended(lm, TipOf(k), PipOf(k)) = isTipAbove(lm, TipOf(k), PipOf(k))
NoLevelTip(lm) == \A k \in 1..4 : lm[TipOf(k)].y # lm[PipOf(k)].y

\* The store a run leaves that stored label for the hand lm: the decision
\* table's column of store calls.
TableStore(label, lm) ==
    [zoom |-> CASE label = "OPEN" -> Fin(Clamp(zoomLevel.v + 15000))
                [] label = "PINCH" -> Fin(Clamp(zoomLevel.v - 15000))
                [] OTHER -> zoomLevel,
     focus |-> IF label \in FocusLabels THEN FocusOf(label) ELSE focusTarget,
     rotation |-> IF label = "POINT"
                  THEN [x |-> 4 * (lm[8].y - 50), y |-> 4 * (lm[8].x - 50)]
                  ELSE saturnRotation]

\* C25: on a hand of which both variants find the same fingers extended, with
\* no fingertip level with its joint, the chain of the "wrist" variant and the
\* chain of the "vertical" variant give the same label, and a run of either
\* variant on it stores that label and makes the store calls of that label.
C25_VariantsDecideAlike ==
    /\ []((WellFormedProbe /\ SameFlags(ProbeLandmarks) /\ NoLevelTip(ProbeLandmarks)) =>
            detectedGestureWrist(ProbeLandmarks) = detectedGestureVertical(ProbeLandmarks))
    /\ [][(/\ TickStep /\ onProbe' /\ lastTick' = "hand" /\ WellFormedProbe
           /\ SameFlags(ProbeLandmarks) /\ NoLevelTip(ProbeLandmarks)) =>
            /\ gestureStatus' = detectedGestureWrist(ProbeLandmarks)
            /\ gestureStatus' = detectedGestureVertical(ProbeLandmarks)
            /\ [zoom |-> zoomLevel', focus |-> focusTarget',
                rotation |-> saturnRotation']
                  = TableStore(gestureStatus', ProbeLandmarks)]_vars

\* Witness of C25: the "vertical" variant has processed an open hand, which the
\* "wrist" variant finds open as well, and has stored OPEN and zoomed in.
C25_Witness ==
    /\ variant = "vertical"
    /\ onProbe /\ WellFormedProbe
    /\ SameFlags(ProbeLandmarks) /\ NoLevelTip(ProbeLandmarks)
    /\ \A k \in 1..4 : isExtended(ProbeLandmarks, TipOf(k), PipOf(k))
    /\ gestureStatus = "OPEN"
    /\ zoomLevel.v > ZoomDefault

\* No zoomLevel > 1.0 test succeeds, and the halo keeps scale 1.
BranchesNotTaken ==
    /\ ~JsGreater(zoomLevel, Fin(1000000))
    /\ clock >= 0 => scene.halo = 1000

\* C26 as stated: whatever the store is called with, zoomLevel > 1.0 never
\* holds, and once a frame was rendered SunHalo's scale is 1.0 and the position
\* of every Planet's orbit group has the length of the Planet's distance.
\* (The position of the orbit group is the zero vector, whose length
\* setLength cannot change.)
C26_GroupsAtTheirDistance ==
    /\ BranchesNotTaken
    /\ clock >= 0 => \A d \in Distances : VecLength(scene.position[d]) = d

\* C26 amended: whatever the store is called with, zoomLevel > 1.0 never holds,
\* and once a frame was rendered SunHalo's scale is 1.0 and every Planet has
\* asked its distance, with no expansion, as the length of its orbit group's
\* position, which stays the zero vector.
C26_DistanceAskedOfGroupsAtOrigin ==
    /\ BranchesNotTaken
    /\ clock >= 0 => \A d \in Distances :
            /\ scene.asked[d] = d
            /\ scene.position[d] = Vector3(0, 0, 0)

\* Witness of C26: setZoomLevel(3.0) has left zoomLevel at 1.0, and the frame
\* rendered after it read 1.0 and asked Saturn's orbit group for length 42.
C26_Witness ==
    /\ lastOp = [op |-> "setZoomLevel", arg |-> Fin(3000000)]
    /\ zoomLevel = Fin(MAX_ZOOM)
    /\ clock = 10
    /\ framed.zoom = 1000
    /\ scene.halo = 1000
    /\ scene.asked[4200] = 4200


====
